---------------------------- MODULE Spec2Model ----------------------------
(***************************************************************************)
(* A model of geopandas.GeoDataFrame (src/geopandas/geodataframe.py):      *)
(* a pandas DataFrame with a column named 'geometry' and a 'crs'           *)
(* attribute.                                                              *)
(*                                                                         *)
(* Two specifications share the module:                                    *)
(*   Spec      a heap of GeoDataFrame objects and their block storage      *)
(*             (DataFrame._data), under construction, copy, indexing,      *)
(*             set_geometry, to_crs and cell assignment;                   *)
(*   FileSpec  one run of to_file (and to_json) over a table, statement    *)
(*             by statement; FairFileSpec adds the progress of the         *)
(*             running call.                                               *)
(***************************************************************************)
EXTENDS Integers, Sequences, FiniteSets, TLC

VARIABLES
    frames,   \* heap: GeoDataFrame objects, [data |-> storage id, crs |-> crs]
    data,     \* heap: storages (DataFrame._data), each a table
    last,     \* the most recent call: its arguments and what it returned
    tbl,      \* to_file/to_json: the table (self) being exported
    pc,       \* to_file: position in the method
    row,      \* to_file: position of the write loop (next row, 1-based)
    schema,   \* to_file: the schema dictionary built at line 170
    file,     \* to_file: the fiona collection: opens, closes, records written
    err,      \* to_file: the exception in flight / raised to the caller
    json      \* to_json: the dictionary handed to json.dumps

heapVars == <<frames, data, last>>
fileVars == <<tbl, pc, row, schema, file, err, json>>
vars == <<frames, data, last, tbl, pc, row, schema, file, err, json>>

-----------------------------------------------------------------------------
(* Bounds of the model *)

\* calls made on the objects of the heap, after the first construction
MaxCalls == 2
\* rows of a table
MaxRows == 2

-----------------------------------------------------------------------------
(* Values *)

\* Python's None
None == "None"
\* a local or a result that is not there (yet)
Unset == [unset |-> TRUE]
\* an attribute that was never set on the object
NoAttr == "<no attribute>"
\* the column label the class is about (lines 29, 74, 203, 206)
GEOMETRY == "geometry"

\* The coordinate reference systems of the model.  A crs is opaque to the
\* class; reprojection between two of them is a shift of the coordinate.
CRSs == {"epsg:4326", "epsg:3857"}

Off(c) ==
    CASE c = "epsg:4326" -> 0
      [] c = "epsg:3857" -> 100
      [] OTHER -> 0

\* A geometry value: its type name, the place it denotes (loc, which no
\* operation reads) and its coordinate x.
Geom(type, loc, crs) == [type |-> type, loc |-> loc, x |-> loc + Off(crs)]

\* g's coordinate denotes g's place in crs c
ExpressedIn(g, c) == g.x = g.loc + Off(c)

\* pyproj.transform of one geometry from crs a to crs b
Transform(g, a, b) == [g EXCEPT !.x = g.x - Off(a) + Off(b)]

\* Truth value of a column label in `if to_remove:` (line 71): None, ''
\* and 0 are false.  The model's labels are strings.
Truthy(label) == label # None /\ label # ""

-----------------------------------------------------------------------------
(* Tables: pandas block storage, as far as the class reads it *)

Range(s) == {s[k] : k \in 1..Len(s)}

\* 'c in table' / table.columns
HasColumn(t, c) == c \in Range(t.columns)

NRows(t) == Len(t.index)

\* del table[c]
DelColumn(t, c) ==
    LET keep(l) == l # c
    IN  [t EXCEPT !.columns = SelectSeq(t.columns, keep),
                  !.col = [l \in DOMAIN t.col \ {c} |-> t.col[l]]]

\* table[c] = values: replaces the column in place, or appends a new one
SetColumn(t, c, values) ==
    IF HasColumn(t, c)
    THEN [t EXCEPT !.col[c] = values]
    ELSE [t EXCEPT !.columns = Append(t.columns, c),
                   !.col = [l \in DOMAIN t.col \cup {c} |->
                               IF l = c THEN values ELSE t.col[l]]]

\* table[[c1, c2, ...]]: a new table of these columns, in the key's order
TakeColumns(t, cs) ==
    [index |-> t.index, columns |-> cs, col |-> [l \in Range(cs) |-> t.col[l]]]

\* table.ix[r, c] = v
SetCellOf(t, r, c, v) == [t EXCEPT !.col[c][r] = v]


-----------------------------------------------------------------------------
(* GeoDataFrame: the in-memory operations *)

\* __init__: a GeoDataFrame over storage d, self.crs = crs
GeoDataFrame(d, crs) == [data |-> d, crs |-> crs]

\* self._propogate_attributes(other): every name of _prop_attributes
\* (['crs'], line 20) is set on self from other
propogate_attributes(self, other) == [self EXCEPT !.crs = other.crs]

\* The table an object reads and writes
TableOf(H, f) == H.data[H.frames[f].data]

\* copy as it would be if data.copy() were skipped: every copy aliases self
copy_shallow_always(H, self, deep) ==
    [frames |-> Append(H.frames,
                   propogate_attributes(GeoDataFrame(H.frames[self].data, None),
                                        H.frames[self])),
     data |-> H.data,
     id |-> Len(H.frames) + 1]

\* self.copy(deep): data = self._data; if deep: data = data.copy();
\* GeoDataFrame(data)._propogate_attributes(self).
\* Returns the heap with the new object, and the new object's id.
copy(H, self, deep) ==
    LET d == IF deep THEN Len(H.data) + 1 ELSE H.frames[self].data
    IN  [frames |-> Append(H.frames,
                       propogate_attributes(GeoDataFrame(d, None), H.frames[self])),
         data |-> IF deep THEN Append(H.data, TableOf(H, self)) ELSE H.data,
         id |-> Len(H.frames) + 1]

\* Keys of an indexed access: a column label, or a list of column labels
StrKey(s) == [kind |-> "str", s |-> s, l |-> <<>>]
ListKey(l) == [kind |-> "list", s |-> "", l |-> l]

\* What an indexed access gives: an exception, or an object of a class
Raised(e) ==
    [raised |-> e, class |-> "", crs |-> NoAttr, values |-> <<>>, columns |-> <<>>,
     col |-> <<>>]
NewSeries(values) ==
    [raised |-> "", class |-> "Series", crs |-> NoAttr, values |-> values,
     columns |-> <<>>, col |-> <<>>]
NewDataFrame(t) ==
    [raised |-> "", class |-> "DataFrame", crs |-> NoAttr, values |-> <<>>,
     columns |-> t.columns, col |-> t.col]

\* DataFrame.__getitem__(key), the call of line 202: a column for a label, a
\* new table for a list of labels, KeyError for a label the table lacks
DataFrame_getitem(t, key) ==
    IF key.kind = "str"
    THEN IF HasColumn(t, key.s) THEN NewSeries(t.col[key.s]) ELSE Raised("KeyError")
    ELSE IF Range(key.l) \subseteq Range(t.columns)
         THEN NewDataFrame(TakeColumns(t, key.l))
         ELSE Raised("KeyError")

\* __getitem__ as it would be without line 205: the GeoSeries gets no crs
getitem_no_crs(self, t, key) ==
    LET result == DataFrame_getitem(t, key)
    IN  IF result.raised # "" THEN result
        ELSE IF key.kind = "str" /\ key.s = GEOMETRY
             THEN [result EXCEPT !.class = "GeoSeries"]
        ELSE IF result.class = "DataFrame" /\ GEOMETRY \in Range(result.columns)
             THEN [result EXCEPT !.class = "GeoDataFrame", !.crs = self.crs]
        ELSE result

\* self[key] (__getitem__): the result of DataFrame.__getitem__, re-classed
\* and given self.crs when it is the geometry column or a table that has one.
\* self is the object, t its table.
getitem(self, t, key) ==
    LET result == DataFrame_getitem(t, key)
    IN  IF result.raised # "" THEN result
        ELSE IF key.kind = "str" /\ key.s = GEOMETRY
             THEN [result EXCEPT !.class = "GeoSeries", !.crs = self.crs]
        ELSE IF result.class = "DataFrame" /\ GEOMETRY \in Range(result.columns)
             THEN [result EXCEPT !.class = "GeoDataFrame", !.crs = self.crs]
        ELSE result

\* The col argument of set_geometry: a column label, a list/ndarray, a Series
ColLabel(s) == [kind |-> "str", s |-> s, values |-> <<>>]
ColList(values) == [kind |-> "list", s |-> "", values |-> values]
ColSeries(values) == [kind |-> "Series", s |-> "", values |-> values]

\* What a method call leaves: the heap, the returned object (0 for None, for
\* an exception too) and the exception raised ("" for none)
Outcome(fr, da, ret, raised) ==
    [frames |-> fr, data |-> da, ret |-> ret, raised |-> raised]

\* the choice of lines 56-59 as it would be if inplace were ignored
Target_always_self(H, self, inplace) ==
    [frames |-> H.frames, data |-> H.data, id |-> self]

\* frame = self if inplace else self.copy() (lines 56-59, 186-189)
Target(H, self, inplace) ==
    IF inplace
    THEN [frames |-> H.frames, data |-> H.data, id |-> self]
    ELSE copy(H, self, TRUE)

\* self.set_geometry(col, drop, inplace) (lines 56-77).  A label that the
\* table lacks raises KeyError at line 67, before anything is changed (the
\* copy of a call with inplace=False is then garbage).
set_geometry(H, self, col, drop, inplace) ==
    LET T == Target(H, self, inplace)
        frame == T.id
        d == T.frames[frame].data
        found == getitem(T.frames[frame], T.data[d], StrKey(col.s))
    IN  IF col.kind \notin {"Series", "list"} /\ found.raised # ""
        THEN Outcome(H.frames, H.data, 0, found.raised)
        ELSE LET level == IF col.kind \in {"Series", "list"}
                          THEN col.values
                          ELSE found.values
                 to_remove == IF col.kind \notin {"Series", "list"} /\ drop
                              THEN col.s
                              ELSE None
                 t1 == IF Truthy(to_remove)
                       THEN DelColumn(T.data[d], to_remove)
                       ELSE T.data[d]
                 t2 == SetColumn(t1, GEOMETRY, level)
             IN  Outcome(T.frames, [T.data EXCEPT ![d] = t2],
                         IF inplace THEN 0 ELSE frame, "")

\* GeoSeries.to_crs(crs) of series (geopandas/geoseries.py): ValueError for
\* a series without a crs, TypeError without a target, whatever the
\* projection library raises on a geometry (fails), else a new GeoSeries of
\* the transformed values whose crs is the target
GeoSeries_to_crs(series, crs, fails) ==
    IF series.crs = None THEN Raised("ValueError")
    ELSE IF crs = None THEN Raised("TypeError")
    ELSE IF fails THEN Raised("RuntimeError")
    ELSE [NewSeries([k \in 1..Len(series.values) |->
                        Transform(series.values[k], series.crs, crs)])
            EXCEPT !.class = "GeoSeries", !.crs = crs]

\* to_crs as it would be without line 192: the crs is left as it was
to_crs_keeps_crs(H, self, crs, inplace, fails) ==
    LET T == Target(H, self, inplace)
        df == T.id
        d == T.frames[df].data
        geometry == getitem(T.frames[df], T.data[d], StrKey(GEOMETRY))
        geom == IF geometry.raised # "" THEN geometry
                ELSE GeoSeries_to_crs(geometry, crs, fails)
    IN  IF geom.raised # ""
        THEN Outcome(H.frames, H.data, 0, geom.raised)
        ELSE Outcome(T.frames,
                     [T.data EXCEPT ![d] = SetColumn(T.data[d], GEOMETRY, geom.values)],
                     IF inplace THEN 0 ELSE df, "")

\* self.to_crs(crs, inplace) (lines 186-194): df.geometry (line 190) is
\* df['geometry'] (line 29); df.geometry = geom assigns the column
\* (DataFrame.__setattr__ of a column's name); df.crs = geom.crs.
to_crs(H, self, crs, inplace, fails) ==
    LET T == Target(H, self, inplace)
        df == T.id
        d == T.frames[df].data
        geometry == getitem(T.frames[df], T.data[d], StrKey(GEOMETRY))
        geom == IF geometry.raised # "" THEN geometry
                ELSE GeoSeries_to_crs(geometry, crs, fails)
    IN  IF geom.raised # ""
        THEN Outcome(H.frames, H.data, 0, geom.raised)
        ELSE Outcome([T.frames EXCEPT ![df].crs = geom.crs],
                     [T.data EXCEPT ![d] = SetColumn(T.data[d], GEOMETRY, geom.values)],
                     IF inplace THEN 0 ELSE df, "")

-----------------------------------------------------------------------------
(* Spec: the heap under the in-memory operations *)

Heap == [frames |-> frames, data |-> data]

\* Column labels of the model's tables: the geometry column, a second
\* column of geometries, a column whose label is false in Python ('' here;
\* 0, the label pandas gives an unlabelled column, is the other one)
Labels == {GEOMETRY, "geom1", ""}

\* The columns of a constructed table: with a geometry column, or without
\* one yet (set_geometry makes it)
ConstructLists == {<<GEOMETRY, "geom1", "">>, <<"geom1", "">>}

\* The list keys of an indexed access
KeyLists == {<<GEOMETRY>>, <<"geom1">>, <<GEOMETRY, "geom1">>, <<"geom1", "">>}

\* The place the value of row r of column label c denotes, at construction
LocOf(c, r) ==
    CASE c = GEOMETRY -> r
      [] c = "geom1" -> 10 + r
      [] OTHER -> 20 + r

\* The table a caller builds for a frame of crs c: every geometry value is
\* expressed in c
NewTable(cs, c) ==
    [index |-> [r \in 1..MaxRows |-> r - 1],
     columns |-> cs,
     col |-> [l \in Range(cs) |-> [r \in 1..MaxRows |-> Geom("Point", LocOf(l, r), c)]]]

\* The column vector a caller hands set_geometry on a frame of crs c
NewLevel(c) == [r \in 1..MaxRows |-> Geom("Point", 30 + r, c)]

\* The cell value a caller assigns in a frame of crs c
NewCell(c) == Geom("Point", 40, c)

\* The record of a call: n counts the calls made so far
Call(op) ==
    [op |-> op, n |-> last.n + 1, self |-> 0, key |-> StrKey(""),
     col |-> ColLabel(""), drop |-> FALSE, inplace |-> FALSE, deep |-> FALSE,
     crs |-> None, cell |-> <<0, "">>, ret |-> 0, raised |-> "",
     result |-> Raised("")]

\* A further call may be made (the bound of the model)
CanCall == pc = "idle" /\ last.n < MaxCalls

\* self.copy(deep)
Copy(self, deep) ==
    LET C == copy(Heap, self, deep)
    IN  /\ CanCall
        /\ frames' = C.frames
        /\ data' = C.data
        /\ last' = [Call("copy") EXCEPT !.self = self, !.deep = deep, !.ret = C.id]
        /\ UNCHANGED fileVars

\* self[key]; a GeoDataFrame it gives is a new object over storage of its own
GetItem(self, key) ==
    LET result == getitem(frames[self], TableOf(Heap, self), key)
        isFrame == result.class = "GeoDataFrame"
    IN  /\ CanCall
        /\ frames' = IF isFrame
                     THEN Append(frames, GeoDataFrame(Len(data) + 1, result.crs))
                     ELSE frames
        /\ data' = IF isFrame
                   THEN Append(data, [index |-> TableOf(Heap, self).index,
                                      columns |-> result.columns, col |-> result.col])
                   ELSE data
        /\ last' = [Call("getitem") EXCEPT !.self = self, !.key = key,
                       !.result = result, !.raised = result.raised,
                       !.ret = IF isFrame THEN Len(frames) + 1 ELSE 0]
        /\ UNCHANGED fileVars

\* self.set_geometry(col, drop, inplace)
SetGeometry(self, col, drop, inplace) ==
    LET O == set_geometry(Heap, self, col, drop, inplace)
    IN  /\ CanCall
        /\ frames' = O.frames
        /\ data' = O.data
        /\ last' = [Call("set_geometry") EXCEPT !.self = self, !.col = col,
                       !.drop = drop, !.inplace = inplace, !.ret = O.ret,
                       !.raised = O.raised]
        /\ UNCHANGED fileVars

\* self.to_crs(crs, inplace); fails: the projection of a geometry raises
ToCrs(self, crs, inplace, fails) ==
    LET O == to_crs(Heap, self, crs, inplace, fails)
    IN  /\ CanCall
        /\ frames' = O.frames
        /\ data' = O.data
        /\ last' = [Call("to_crs") EXCEPT !.self = self, !.crs = crs,
                       !.inplace = inplace, !.ret = O.ret, !.raised = O.raised]
        /\ UNCHANGED fileVars

\* self.ix[r, 'geometry'] = v: a cell assignment (pandas) writes the storage
\* in place; the caller's v is expressed in self.crs
SetCell(self, r) ==
    /\ CanCall
    /\ HasColumn(TableOf(Heap, self), GEOMETRY)
    /\ frames' = frames
    /\ data' = [data EXCEPT ![frames[self].data] =
                   SetCellOf(@, r, GEOMETRY, NewCell(frames[self].crs))]
    /\ last' = [Call("setcell") EXCEPT !.self = self, !.cell = <<r, GEOMETRY>>]
    /\ UNCHANGED fileVars

\* No export is running
Idle ==
    /\ tbl = Unset
    /\ pc = "idle"
    /\ row = 0
    /\ schema = Unset
    /\ file = [opened |-> 0, closed |-> 0, written |-> <<>>]
    /\ err = None
    /\ json = Unset

\* The heap after GeoDataFrame(table, crs=c): one object, self.crs = c
Init ==
    /\ \E cs \in ConstructLists, c \in CRSs \cup {None} :
          /\ frames = <<GeoDataFrame(1, c)>>
          /\ data = <<NewTable(cs, c)>>
          /\ last = [op |-> "construct", n |-> 0, self |-> 0, key |-> StrKey(""),
                     col |-> ColLabel(""), drop |-> FALSE, inplace |-> FALSE,
                     deep |-> FALSE, crs |-> c, cell |-> <<0, "">>, ret |-> 1,
                     raised |-> "", result |-> Raised("")]
    /\ Idle

Next ==
    \/ \E self \in 1..Len(frames), deep \in BOOLEAN : Copy(self, deep)
    \/ \E self \in 1..Len(frames), s \in Labels : GetItem(self, StrKey(s))
    \/ \E self \in 1..Len(frames), l \in KeyLists : GetItem(self, ListKey(l))
    \/ \E self \in 1..Len(frames), s \in Labels, drop \in BOOLEAN, inplace \in BOOLEAN :
          SetGeometry(self, ColLabel(s), drop, inplace)
    \/ \E self \in 1..Len(frames), inplace \in BOOLEAN :
          SetGeometry(self, ColList(NewLevel(frames[self].crs)), TRUE, inplace)
    \/ \E self \in 1..Len(frames), inplace \in BOOLEAN :
          SetGeometry(self, ColSeries(NewLevel(frames[self].crs)), TRUE, inplace)
    \/ \E self \in 1..Len(frames), c \in CRSs \cup {None}, inplace \in BOOLEAN,
          fails \in BOOLEAN :
          ToCrs(self, c, inplace, fails)
    \/ \E self \in 1..Len(frames), r \in 1..MaxRows : SetCell(self, r)

Spec == Init /\ [][Next]_vars

-----------------------------------------------------------------------------
(* to_json and to_file *)

\* geom.geom_type of the shapely geometries
GeomTypeNames ==
    {"Point", "LineString", "LinearRing", "Polygon", "MultiPoint",
     "MultiLineString", "MultiPolygon", "GeometryCollection"}

\* The characters of a type name
Chars(name) ==
    CASE name = "Point" -> <<"P", "o", "i", "n", "t">>
      [] name = "LineString" -> <<"L", "i", "n", "e", "S", "t", "r", "i", "n", "g">>
      [] name = "LinearRing" -> <<"L", "i", "n", "e", "a", "r", "R", "i", "n", "g">>
      [] name = "Polygon" -> <<"P", "o", "l", "y", "g", "o", "n">>
      [] name = "MultiPoint" -> <<"M", "u", "l", "t", "i", "P", "o", "i", "n", "t">>
      [] name = "MultiLineString" ->
            <<"M", "u", "l", "t", "i", "L", "i", "n", "e", "S", "t", "r", "i", "n", "g">>
      [] name = "MultiPolygon" ->
            <<"M", "u", "l", "t", "i", "P", "o", "l", "y", "g", "o", "n">>
      [] name = "GeometryCollection" ->
            <<"G", "e", "o", "m", "e", "t", "r", "y", "C", "o", "l", "l", "e", "c", "t",
              "i", "o", "n">>

\* The string of a sequence of characters
RECURSIVE Str(_)
Str(cs) == IF cs = <<>> THEN "" ELSE cs[1] \o Str(Tail(cs))

\* s[::-1]
Reverse(s) == [k \in 1..Len(s) |-> s[Len(s) + 1 - k]]

\* Series.unique(): the distinct values, in the order of first appearance
RECURSIVE unique(_)
unique(s) ==
    IF s = <<>> THEN <<>>
    ELSE LET init == unique(SubSeq(s, 1, Len(s) - 1))
             x == s[Len(s)]
         IN  IF x \in Range(init) THEN init ELSE Append(init, x)

\* os.path.commonprefix(m): the longest sequence every member of m starts
\* with; '' for an empty m
commonprefix(m) ==
    IF m = <<>> THEN <<>>
    ELSE LET agree == {j \in 0..Len(m[1]) :
                         \A k \in 1..Len(m) :
                            Len(m[k]) >= j /\ SubSeq(m[k], 1, j) = SubSeq(m[1], 1, j)}
             n == CHOOSE j \in agree : \A i \in agree : i <= j
         IN  SubSeq(m[1], 1, n)

\* self['geometry'].geom_type: the type name of every geometry of the column
geom_type_of(t) == [r \in 1..NRows(t) |-> t.col[GEOMETRY][r].type]

\* line 166 as it would be without the two reversals: the common prefix
common_prefix_unreversed(geom_types) ==
    Str(commonprefix([k \in 1..Len(geom_types) |-> Chars(geom_types[k])]))

\* line 166: the longest common suffix of the distinct type names
common_suffix(geom_types) ==
    Str(Reverse(commonprefix([k \in 1..Len(geom_types) |->
                                 Reverse(Chars(geom_types[k]))])))

\* convert_type(in_type): 'str' for object, else the name of the Python
\* type of a numpy scalar of the dtype
convert_type(in_type) ==
    IF in_type = "object" THEN "str"
    ELSE CASE in_type = "int64" -> "int"
           [] in_type = "float64" -> "float"
           [] in_type = "bool" -> "bool"

\* shapely.geometry.mapping(g): the GeoJSON-like form of a geometry
mapping(g) == [type |-> g.type, coordinates |-> g.x]

\* self.iterrows(): for every row in order, the index value and the row
iterrows(t) ==
    [r \in 1..NRows(t) |-> <<t.index[r], [c \in Range(t.columns) |-> t.col[c][r]]>>]

\* feature(i, row) of to_json
json_feature(i, r) ==
    [id |-> ToString(i),
     type |-> "Feature",
     properties |-> [k \in DOMAIN r \ {GEOMETRY} |-> r[k]],
     geometry |-> mapping(r[GEOMETRY])]

\* feature of to_file as it would be without the filter of line 156
feature_keeps_geometry(i, r) ==
    [id |-> ToString(i),
     type |-> "Feature",
     properties |-> r,
     geometry |-> mapping(r[GEOMETRY])]

\* feature(i, row) of to_file
feature(i, r) ==
    [id |-> ToString(i),
     type |-> "Feature",
     properties |-> [k \in DOMAIN r \ {GEOMETRY} |-> r[k]],
     geometry |-> mapping(r[GEOMETRY])]

\* properties of line 159-160: a field type for every column but geometry,
\* in column order
schema_properties(t) ==
    LET notGeometry(c) == c # GEOMETRY
        cs == SelectSeq(t.columns, notGeometry)
    IN  [k \in 1..Len(cs) |-> <<cs[k], convert_type(t.dtypes[cs[k]])>>]

\* to_json(): the dictionary handed to json.dumps (lines 123-126)
to_json(t) ==
    [type |-> "FeatureCollection",
     features |-> [r \in 1..NRows(t) |-> json_feature(iterrows(t)[r][1], iterrows(t)[r][2])]]

\* lines 164-170: the schema, or the ValueError of line 168
to_file_schema(t) ==
    LET properties == schema_properties(t)
        geom_types == unique(geom_type_of(t))
        geom_type == common_suffix(geom_types)
    IN  IF geom_type = ""
        THEN [raised |-> "ValueError", schema |-> Unset]
        ELSE [raised |-> "", schema |-> [geometry |-> geom_type, properties |-> properties]]

-----------------------------------------------------------------------------
(* FileSpec: one call of to_json or to_file on a table *)

\* The tables exported: up to MaxRows rows of any geometry types, a default
\* or a labelled index, with or without attribute columns
IndexKinds == {"range", "labels"}
IndexOf(kind, r) == IF kind = "range" THEN r - 1 ELSE 10 - r
ExportLists == {<<GEOMETRY>>, <<"name", GEOMETRY, "pop">>}
DtypeOf(c) == IF c = "pop" THEN "int64" ELSE "object"
NameOf(r) == IF r = 1 THEN "a" ELSE IF r = 2 THEN "b" ELSE "c"

ExportTable(types, kind, cs, c) ==
    [index |-> [r \in 1..Len(types) |-> IndexOf(kind, r)],
     columns |-> cs,
     dtypes |-> [l \in Range(cs) |-> DtypeOf(l)],
     crs |-> c,
     col |-> [l \in Range(cs) |->
                [r \in 1..Len(types) |->
                    IF l = GEOMETRY THEN Geom(types[r], r, c)
                    ELSE IF l = "name" THEN NameOf(r)
                    ELSE 1000 * r]]]

InitFile ==
    /\ frames = <<>>
    /\ data = <<>>
    /\ last = [op |-> "none", n |-> 0]
    /\ \E n \in 0..MaxRows :
          \E types \in [1..n -> GeomTypeNames], kind \in IndexKinds, cs \in ExportLists :
             tbl = ExportTable(types, kind, cs, "epsg:4326")
    /\ pc = "start"
    /\ row = 0
    /\ schema = Unset
    /\ file = [opened |-> 0, closed |-> 0, written |-> <<>>]
    /\ err = None
    /\ json = Unset

\* self.to_json()
ToJson ==
    /\ pc = "start"
    /\ json' = to_json(tbl)
    /\ pc' = "returned"
    /\ UNCHANGED <<heapVars, tbl, row, schema, file, err>>

\* to_file, lines 159-170: the schema is built, or ValueError is raised
ToFileSchema ==
    /\ pc = "start"
    /\ LET S == to_file_schema(tbl)
       IN  IF S.raised # ""
           THEN /\ err' = S.raised
                /\ pc' = "raised"
                /\ UNCHANGED schema
           ELSE /\ schema' = S.schema
                /\ pc' = "open"
                /\ UNCHANGED err
    /\ UNCHANGED <<heapVars, tbl, row, file, json>>

\* line 172: fiona.open(...) gives the collection and the with block is entered
Open ==
    /\ pc = "open"
    /\ file' = [file EXCEPT !.opened = @ + 1]
    /\ row' = 1
    /\ pc' = "loop"
    /\ UNCHANGED <<heapVars, tbl, schema, err, json>>

\* line 172: fiona.open(...) raises; there is no collection
OpenFails ==
    /\ pc = "open"
    /\ err' = "OpenError"
    /\ pc' = "raised"
    /\ UNCHANGED <<heapVars, tbl, row, schema, file, json>>

\* lines 174-175: c.write(feature(i, row)) of the next row
WriteRow ==
    /\ pc = "loop"
    /\ row <= NRows(tbl)
    /\ file' = [file EXCEPT !.written =
                   Append(@, feature(iterrows(tbl)[row][1], iterrows(tbl)[row][2]))]
    /\ row' = row + 1
    /\ UNCHANGED <<heapVars, tbl, pc, schema, err, json>>

\* an exception in the body as it would go without the with statement:
\* straight to the caller
with_exit_skipped(e) == "raised"

\* Where an exception e raised in the body of the with statement goes: to
\* the collection's __exit__
leave_with(e) == "exit"

\* line 175: c.write raises; the exception leaves the with block
WriteFails ==
    /\ pc = "loop"
    /\ row <= NRows(tbl)
    /\ err' = "WriteError"
    /\ pc' = leave_with("WriteError")
    /\ UNCHANGED <<heapVars, tbl, row, schema, file, json>>

\* line 174: the rows are exhausted and the with block ends
LoopEnds ==
    /\ pc = "loop"
    /\ row > NRows(tbl)
    /\ pc' = "exit"
    /\ UNCHANGED <<heapVars, tbl, row, schema, file, err, json>>

\* the end of the with statement: the collection's __exit__ closes it, and
\* the exception in flight, if any, goes on to the caller
WithExit ==
    /\ pc = "exit"
    /\ file' = [file EXCEPT !.closed = @ + 1]
    /\ pc' = IF err = None THEN "returned" ELSE "raised"
    /\ UNCHANGED <<heapVars, tbl, row, schema, err, json>>

\* The statements of a call of to_file that has begun
Running == Open \/ OpenFails \/ WriteRow \/ WriteFails \/ LoopEnds \/ WithExit

NextFile ==
    \/ ToJson
    \/ ToFileSchema
    \/ Open
    \/ OpenFails
    \/ WriteRow
    \/ WriteFails
    \/ LoopEnds
    \/ WithExit

FileSpec == InitFile /\ [][NextFile]_vars

\* Whether to_json or to_file is called is the caller's choice; a call of
\* to_file that has begun goes on: Python runs its next statement.  Whether
\* a write fails is the environment's choice, so the fairness is on the
\* statements as a whole, not on any one outcome.
FairFileSpec == InitFile /\ [][NextFile]_vars /\ WF_vars(Running)

-----------------------------------------------------------------------------
(* Claims checked under Spec *)

\* The geometry column of object f, as f shows it
GeometryOf(H, f) == TableOf(H, f).col[GEOMETRY]

\* C1: self[key] is classified by the key and the result.  With T the table
\* of self and c its crs: the key 'geometry' gives a GeoSeries of crs c whose
\* values are T's geometry column in row order; a list of labels that holds
\* 'geometry' gives a table with a geometry column, a GeoDataFrame of crs c;
\* any other label or list of labels gives a plain Series or DataFrame with
\* no crs attribute.
C1_GetItemClassified ==
    last.op = "getitem" =>
        LET T == TableOf(Heap, last.self)
            c == frames[last.self].crs
            k == last.key
            res == last.result
        IN  /\ (k.kind = "str" /\ k.s = GEOMETRY /\ HasColumn(T, GEOMETRY)) =>
                  /\ res.raised = ""
                  /\ res.class = "GeoSeries"
                  /\ res.crs = c
                  /\ res.values = T.col[GEOMETRY]
            /\ (k.kind = "list" /\ Range(k.l) \subseteq Range(T.columns)
                   /\ GEOMETRY \in Range(k.l)) =>
                  /\ res.raised = ""
                  /\ res.class = "GeoDataFrame"
                  /\ res.crs = c
                  /\ last.ret \in 1..Len(frames)
                  /\ frames[last.ret].crs = c
                  /\ TableOf(Heap, last.ret).columns = k.l
                  /\ \A l \in Range(k.l) : TableOf(Heap, last.ret).col[l] = T.col[l]
            /\ (k.kind = "list" /\ Range(k.l) \subseteq Range(T.columns)
                   /\ GEOMETRY \notin Range(k.l)) =>
                  /\ res.raised = ""
                  /\ res.class = "DataFrame"
                  /\ res.crs = NoAttr
                  /\ last.ret = 0
            /\ (k.kind = "str" /\ k.s # GEOMETRY /\ HasColumn(T, k.s)) =>
                  /\ res.raised = ""
                  /\ res.class = "Series"
                  /\ res.crs = NoAttr
                  /\ res.values = T.col[k.s]

\* C1 happens: the geometry column is read from a table with a crs
C1_Witness ==
    /\ last.op = "getitem"
    /\ last.key = StrKey(GEOMETRY)
    /\ last.result.class = "GeoSeries"
    /\ last.result.crs = "epsg:3857"
    /\ last.result.values = GeometryOf(Heap, last.self)
    /\ Len(last.result.values) = MaxRows

\* C2: for every column label col of the table, set_geometry(col, drop=True)
\* gives a table whose geometry column holds the values that were in col, in
\* row order, and whose columns no longer hold col.  (For col = 'geometry'
\* the table has a column of that name again, the new geometry column; the
\* second half is stated for the other labels.)
C2_DropRemovesColumn ==
    [][(/\ last'.op = "set_geometry"
        /\ last'.col.kind = "str"
        /\ last'.drop
        /\ HasColumn(TableOf(Heap, last'.self), last'.col.s)) =>
          LET frame == IF last'.inplace THEN last'.self ELSE last'.ret
          IN  /\ last'.raised = ""
              /\ GeometryOf(Heap', frame) = TableOf(Heap, last'.self).col[last'.col.s]
              /\ last'.col.s # GEOMETRY =>
                    ~HasColumn(TableOf(Heap', frame), last'.col.s)]_vars

\* C3: set_geometry and to_crs with inplace=False return a new object and
\* leave the receiver (and every other object) as it was: columns, values
\* and crs; with inplace=True they return None and the change is made on the
\* receiver.
C3_InplaceContract ==
    [][last'.op \in {"set_geometry", "to_crs"} =>
          LET self == last'.self
              changed == IF last'.inplace THEN self ELSE last'.ret
              done == last'.raised = ""
          IN  /\ ~last'.inplace =>
                    /\ \A f \in 1..Len(frames) :
                          /\ frames'[f] = frames[f]
                          /\ TableOf(Heap', f) = TableOf(Heap, f)
                    /\ done =>
                          /\ last'.ret = Len(frames) + 1
                          /\ Len(frames') = Len(frames) + 1
                          /\ \A f \in 1..Len(frames) :
                                frames'[last'.ret].data # frames'[f].data
                    /\ ~done => last'.ret = 0
              /\ last'.inplace =>
                    /\ last'.ret = 0
                    /\ Len(frames') = Len(frames)
              /\ (done /\ last'.op = "to_crs") =>
                    /\ frames'[changed].crs = last'.crs
                    /\ GeometryOf(Heap', changed) =
                          [r \in 1..MaxRows |->
                              Transform(GeometryOf(Heap, self)[r],
                                        frames[self].crs, last'.crs)]
              /\ (done /\ last'.op = "set_geometry") =>
                    /\ frames'[changed].crs = frames[self].crs
                    /\ GeometryOf(Heap', changed) =
                          IF last'.col.kind = "str"
                          THEN TableOf(Heap, self).col[last'.col.s]
                          ELSE last'.col.values]_vars

\* C3 happens: to_crs(inplace=False) returned a new object in the target
\* crs and the receiver is still in its own
C3_Witness ==
    /\ last.op = "to_crs"
    /\ ~last.inplace
    /\ last.raised = ""
    /\ last.ret > 0
    /\ frames[last.ret].crs = "epsg:3857"
    /\ frames[last.self].crs = "epsg:4326"
    /\ GeometryOf(Heap, last.ret) # GeometryOf(Heap, last.self)

\* C4: copy(deep) gives an object with the crs of the source, over storage
\* of its own exactly when deep is true; no object ever changes its storage;
\* a call on an object leaves every object over other storage as it was (so
\* no mutation of a deep copy changes the source); a cell assigned through
\* an object is seen through every object over the same storage (a shallow
\* copy and its source).
C4_CopyStorage ==
    [][/\ last'.op = "copy" =>
             /\ last'.ret = Len(frames) + 1
             /\ frames'[last'.ret].crs = frames[last'.self].crs
             /\ TableOf(Heap', last'.ret) = TableOf(Heap, last'.self)
             /\ last'.deep <=>
                   \A f \in 1..Len(frames) : frames'[last'.ret].data # frames'[f].data
             /\ ~last'.deep => frames'[last'.ret].data = frames'[last'.self].data
       /\ \A f \in 1..Len(frames) : frames'[f].data = frames[f].data
       /\ \A f, g \in 1..Len(frames) :
             /\ (frames[f].data # frames[g].data /\ last'.self = f) =>
                   TableOf(Heap', g) = TableOf(Heap, g)
             /\ (frames[f].data = frames[g].data /\ last'.self = f
                    /\ last'.op = "setcell") =>
                   GeometryOf(Heap', g)[last'.cell[1]] = NewCell(frames[f].crs)]_vars

\* C4 happens: a cell was assigned through a shallow copy and the source
\* shows it
C4_Witness ==
    /\ last.op = "setcell"
    /\ last.self = 2
    /\ frames[2].data = frames[1].data
    /\ GeometryOf(Heap, 1)[last.cell[1]] = NewCell(frames[2].crs)
    /\ GeometryOf(Heap, 1)[last.cell[1]] # NewTable(<<GEOMETRY>>, frames[1].crs).col[GEOMETRY][last.cell[1]]

\* C5: after a call of to_crs(target), returned or raised, the object it
\* works on (the receiver, or the copy it returns) has either its geometry
\* values and its crs as before the call, or every geometry value
\* reprojected from the old crs to target and its crs equal to target.
C5_ToCrsAtomic ==
    [][last'.op = "to_crs" =>
          LET self == last'.self
              df == IF last'.inplace \/ last'.raised # "" THEN self ELSE last'.ret
              before == TableOf(Heap, self)
              after == TableOf(Heap', df)
          IN  \/ /\ frames'[df].crs = frames[self].crs
                 /\ after = before
                 /\ last'.raised # ""
              \/ /\ frames'[df].crs = last'.crs
                 /\ last'.crs \in CRSs
                 /\ last'.raised = ""
                 /\ after.col[GEOMETRY] =
                       [r \in 1..MaxRows |->
                           Transform(before.col[GEOMETRY][r], frames[self].crs,
                                     last'.crs)]]_vars

\* C5 happens: to_crs(inplace=True) moved the receiver to another crs
C5_Witness ==
    /\ last.op = "to_crs"
    /\ last.inplace
    /\ last.raised = ""
    /\ frames[last.self].crs = "epsg:3857"
    /\ \A r \in 1..MaxRows : GeometryOf(Heap, last.self)[r].x = r + Off("epsg:3857")

\* C9: in every state reached by construction, copy, indexing, set_geometry
\* and to_crs, every object with a crs and a geometry column has all values
\* of that column expressed in its crs.
C9_GeometryInCrs ==
    \A f \in 1..Len(frames) :
        (frames[f].crs \in CRSs /\ HasColumn(TableOf(Heap, f), GEOMETRY)) =>
            \A r \in 1..MaxRows : ExpressedIn(GeometryOf(Heap, f)[r], frames[f].crs)

-----------------------------------------------------------------------------
(* Claims checked under FileSpec and FairFileSpec *)

\* to_file has got past the check of lines 164-169 (json is set by to_json)
PastTypeCheck == pc \notin {"idle", "start"} /\ json = Unset

\* The distinct type names of the geometry column
TypeNames == {tbl.col[GEOMETRY][r].type : r \in 1..NRows(tbl)}

\* cs ends name
IsSuffix(cs, name) ==
    LET n == Chars(name)
    IN  /\ Len(cs) <= Len(n)
        /\ \A k \in 1..Len(cs) : cs[k] = n[Len(n) - Len(cs) + k]

\* The endings all the names share
SharedSuffixes(names) ==
    {cs \in UNION {{SubSeq(Chars(n), k, Len(Chars(n))) : k \in 1..Len(Chars(n)) + 1} :
                      n \in names} :
        \A n \in names : IsSuffix(cs, n)}

\* C6: to_file derives one geometry type from the distinct type names of the
\* column: the name itself when there is one; the ending the names share
\* (the longest) when there are several; and when the names share no ending
\* but the empty one it raises ValueError with no collection opened and no
\* record written.
C6_GeometryTypeOfSchema ==
    (PastTypeCheck /\ TypeNames # {}) =>
        LET shared == SharedSuffixes(TypeNames)
        IN  /\ (\E n \in TypeNames : TypeNames = {n}) =>
                  /\ err # "ValueError"
                  /\ schema.geometry \in TypeNames
            /\ (Cardinality(TypeNames) > 1 /\ shared # {<<>>}) =>
                  /\ err # "ValueError"
                  /\ \E cs \in shared :
                        /\ schema.geometry = Str(cs)
                        /\ \A other \in shared : Len(other) <= Len(cs)
            /\ shared = {<<>>} =>
                  /\ pc = "raised"
                  /\ err = "ValueError"
                  /\ schema = Unset
                  /\ file.opened = 0
                  /\ file.written = <<>>

\* C6 happens: Point and Polygon rows, ValueError, nothing opened
C6_Witness ==
    /\ TypeNames = {"Point", "Polygon"}
    /\ pc = "raised"
    /\ err = "ValueError"
    /\ file.opened = 0

\* C7: a call of to_file that opens the collection closes it exactly once on
\* every way out: after the last row, and, when a write fails, before the
\* error reaches the caller; the error reaches the caller as raised, the rows
\* after the failing one are not written, nothing is written again and
\* nothing written is taken back.
C7_ReleasedOnEveryPath ==
    /\ [](file.opened <= 1 /\ file.closed <= file.opened)
    /\ [](pc \in {"returned", "raised"} => file.closed = file.opened)
    /\ [](file.opened = 1 => <>(file.closed = 1))
    /\ []((pc = "raised" /\ file.opened = 1) =>
             /\ err = "WriteError"
             /\ row <= NRows(tbl)
             /\ Len(file.written) = row - 1)
    /\ []((pc = "returned" /\ file.opened = 1) =>
             /\ err = None
             /\ Len(file.written) = NRows(tbl))
    /\ [][/\ file.closed = 1 => file' = file
          /\ err # None => (file'.written = file.written /\ err' = err)
          /\ Len(file'.written) >= Len(file.written)
          /\ SubSeq(file'.written, 1, Len(file.written)) = file.written]_vars

\* C7 happens: the second write failed, the collection is closed, the error
\* is with the caller
C7_Witness ==
    /\ pc = "raised"
    /\ err = "WriteError"
    /\ file.opened = 1
    /\ file.closed = 1
    /\ Len(file.written) = 1
    /\ NRows(tbl) = MaxRows

\* The decimal string of an index value of the model's tables
Decimal(i) ==
    CASE i = 0 -> "0" [] i = 1 -> "1" [] i = 2 -> "2" [] i = 3 -> "3" [] i = 4 -> "4"
      [] i = 5 -> "5" [] i = 6 -> "6" [] i = 7 -> "7" [] i = 8 -> "8" [] i = 9 -> "9"

\* f is the Feature record of row r of the table
IsFeatureOfRow(f, r) ==
    /\ DOMAIN f = {"id", "type", "properties", "geometry"}
    /\ f.id = Decimal(tbl.index[r])
    /\ f.type = "Feature"
    /\ DOMAIN f.properties = Range(tbl.columns) \ {GEOMETRY}
    /\ \A c \in Range(tbl.columns) \ {GEOMETRY} : f.properties[c] = tbl.col[c][r]
    /\ f.geometry = [type |-> tbl.col[GEOMETRY][r].type,
                     coordinates |-> tbl.col[GEOMETRY][r].x]

\* C8: to_json gives a FeatureCollection of one Feature per row, in row
\* order; the write loop of to_file writes the Feature of every row it has
\* passed, in row order, all of them when it returns.  The Feature of the
\* row with index i has id str(i), type 'Feature', the row's values of all
\* columns but geometry as properties, and the row's geometry in mapping
\* form.
C8_OneFeaturePerRow ==
    /\ json # Unset =>
          /\ DOMAIN json = {"type", "features"}
          /\ json.type = "FeatureCollection"
          /\ Len(json.features) = NRows(tbl)
          /\ \A r \in 1..NRows(tbl) : IsFeatureOfRow(json.features[r], r)
    /\ pc \in {"loop", "exit", "returned", "raised"} =>
          /\ Len(file.written) <= NRows(tbl)
          /\ \A r \in 1..Len(file.written) : IsFeatureOfRow(file.written[r], r)
    /\ pc = "loop" => Len(file.written) = row - 1
    /\ (pc = "returned" /\ json = Unset) => Len(file.written) = NRows(tbl)

\* C8 happens: to_file returned after writing the rows of a table with a
\* labelled index and attribute columns
C8_Witness ==
    /\ pc = "returned"
    /\ json = Unset
    /\ Len(file.written) = MaxRows
    /\ HasColumn(tbl, "name")
    /\ file.written[2].id = "8"
    /\ file.written[2].properties["name"] = "b"
    /\ file.written[1].geometry.type = "Point"

\* C10: whenever to_file opens the collection, the geometry entry of the
\* schema is the name of a geometry type.
C10_SchemaGeometryIsTypeName ==
    file.opened >= 1 => schema.geometry \in GeomTypeNames
=============================================================================
